---- MODULE Spec2Model ----
(***************************************************************************)
(* Warp-level tensor-op matrix multiply-accumulate                         *)
(* (include/cutlass/gemm/warp/mma_tensor_op.h).                            *)
(*                                                                         *)
(* Two state machines share this module:                                   *)
(*   Spec           MmaTensorOp::operator(), one step per mma invocation   *)
(*   SpecTransform  MmaTensorOp::transform and detail::ConvertAndPack      *)
(* Fragments are functions over 0..k-1 so that the source's zero-based     *)
(* indices are kept.  operator() works on sub-tile granularity (the        *)
(* reinterpret_cast of the fragments to arrays of mma operands), transform *)
(* on element granularity.                                                 *)
(***************************************************************************)
EXTENDS Integers, Sequences, FiniteSets, TLC

VARIABLES
  Shape,                  \* Shape_ : warp-level tile shape [kM, kN, kK]
  OperatorShape,          \* Policy::Operator::Shape [kM, kN, kK]
  kPartitionsN,           \* PartitionsN_
  AccumulatorsInRowMajor, \* template flag
  partitionN_idx,         \* run-time argument of operator()
  A, B, C,                \* operands of operator(), one value per sub-tile
  D,                      \* output accumulators, one value per sub-tile
  n_off, n, m,            \* locals of operator()
  pc,                     \* position inside operator()
  calls,                  \* sequence of mma invocations issued so far
  ElementA, ElementB,     \* raw element types of the operands
  OperatorElementA,       \* Policy::Operator::ElementA
  OperatorElementB,       \* Policy::Operator::ElementB
  FragA, FragB,           \* raw fragments given to transform
  dst_A, dst_B,           \* transformed fragments
  i, tmp,                 \* locals of ConvertAndPack<half_t, float>
  reads,                  \* source indices read by ConvertAndPack so far
  tpc                     \* position inside transform

vars == <<Shape, OperatorShape, kPartitionsN, AccumulatorsInRowMajor,
          partitionN_idx, A, B, C, D, n_off, n, m, pc, calls,
          ElementA, ElementB, OperatorElementA, OperatorElementB,
          FragA, FragB, dst_A, dst_B, i, tmp, reads, tpc>>

mmaVars == <<Shape, OperatorShape, kPartitionsN, AccumulatorsInRowMajor,
             partitionN_idx, A, B, C, D, n_off, n, m, pc, calls>>

transformVars == <<ElementA, ElementB, OperatorElementA, OperatorElementB,
                   FragA, FragB, dst_A, dst_B, i, tmp, reads, tpc>>

----------------------------------------------------------------------------
(* Bounds of the model *)

MaxRows == 4         \* Shape.kM / OperatorShape.kM ranges over 1..MaxRows
MaxNTiles == 8       \* Shape.kN / OperatorShape.kN ranges over 1..MaxNTiles
MaxPartitionsN == 3  \* kPartitionsN ranges over 1..MaxPartitionsN

----------------------------------------------------------------------------
(* Compile-time configuration *)

kThreadCount == 32

\* Shapes of the elementary operators (arch::Mma) the warp-level tile is
\* built from.
OperatorShapes ==
  { [kM |-> 16, kN |-> 8, kK |-> 8], [kM |-> 8, kN |-> 8, kK |-> 16] }

\* static_assert: Shape must be divisible by the operator shape.
ShapeDivisible(S, Op) == (S.kM % Op.kM = 0) /\ (S.kN % Op.kN = 0)

\* MmaIterations::kRow
MmaIterationsRow(S, Op) == S.kM \div Op.kM

\* MmaIterations::kColumn
MmaIterationsColumn(S, Op, P) ==
  IF (S.kN \div Op.kN) \div P > 0 THEN (S.kN \div Op.kN) \div P ELSE 1

\* Fragment sizes (elements per thread) of the tile iterators and of the
\* elementary operator.
FragmentA_kElements(S, Op) == (S.kM * Op.kK) \div kThreadCount
FragmentB_kElements(S, Op) == (Op.kK * S.kN) \div kThreadCount
FragmentC_kElements(S) == (S.kM * S.kN) \div kThreadCount
MmaOperandA_kElements(Op) == (Op.kM * Op.kK) \div kThreadCount
MmaOperandB_kElements(Op) == (Op.kK * Op.kN) \div kThreadCount
MmaOperandC_kElements(Op) == (Op.kM * Op.kN) \div kThreadCount

\* Number of operand-sized sub-tiles in each fragment (the extent of the
\* arrays ptr_A, ptr_B and ptr_D).
NumTilesA(S, Op) == FragmentA_kElements(S, Op) \div MmaOperandA_kElements(Op)
NumTilesB(S, Op) == FragmentB_kElements(S, Op) \div MmaOperandB_kElements(Op)
NumTilesC(S, Op) == FragmentC_kElements(S) \div MmaOperandC_kElements(Op)

rows == MmaIterationsRow(Shape, OperatorShape)
cols == MmaIterationsColumn(Shape, OperatorShape, kPartitionsN)

----------------------------------------------------------------------------
(* The elementary mma primitive.  It is opaque to the warp-level code, so  *)
(* it is modelled as an injective function of its three operands: two      *)
(* different invocations never give the same accumulator value.            *)

NumVals == MaxRows + MaxNTiles + 2
NumAccVals == MaxRows * MaxNTiles + 2

mma(a, b, c) == (c * NumVals + a) * NumVals + b

Uninitialized == 0 - 1

----------------------------------------------------------------------------
(* MmaTensorOp::operator() *)

ClearAccumulators(src) == [k \in DOMAIN src |-> 0]

\* D = C
CopyAccumulators(src) == src

NOffUnscaled(p, fragB, opB, P) == (p * fragB) \div opB

NOffPerPartition(p, fragB, opB, P) == p * ((fragB \div opB) \div P)

\* The offset of multiplicand B for the current partition.
NOff(p, fragB, opB, P) == ((p * fragB) \div opB) \div P

MSerpentineForward(nn, mm, kRow) == mm

\* Serpentine visitation order.
MSerpentine(nn, mm, kRow) == IF nn % 2 # 0 THEN kRow - 1 - mm ELSE mm

AccumIndexColumnStride(rowMajor, ms, nn, off, kRow, kColumn) ==
  IF rowMajor THEN nn + ms * kColumn ELSE ms + (nn + off) * kColumn

\* Index of the accumulator sub-tile read and written.
AccumIndex(rowMajor, ms, nn, off, kRow, kColumn) ==
  IF rowMajor THEN nn + ms * kColumn ELSE ms + (nn + off) * kRow

\* Index of the B sub-tile.
BIndex(rowMajor, nn, off) == IF rowMajor THEN nn ELSE nn + off

\* One invocation of the loop body at loop indices (nn, mm).
Invocation(rowMajor, nn, mm, off, kRow, kColumn) ==
  LET ms == MSerpentine(nn, mm, kRow) IN
  [ m |-> ms, n |-> nn,
    a |-> ms,
    b |-> BIndex(rowMajor, nn, off),
    d |-> AccumIndex(rowMajor, ms, nn, off, kRow, kColumn),
    c |-> AccumIndex(rowMajor, ms, nn, off, kRow, kColumn) ]

InBounds(inv) ==
  /\ inv.a \in DOMAIN A
  /\ inv.b \in DOMAIN B
  /\ inv.d \in DOMAIN D
  /\ inv.c \in DOMAIN D

\* Effect of one invocation on the accumulators.
Accumulate(acc, fa, fb, inv) ==
  [acc EXCEPT ![inv.d] = mma(fa[inv.a], fb[inv.b], acc[inv.c])]

\* The whole loop nest from iteration k on, as a function of the operands.
RECURSIVE MmaLoop(_, _, _, _, _, _, _, _)
MmaLoop(acc, k, rowMajor, off, kRow, kColumn, fa, fb) ==
  IF k >= kRow * kColumn THEN acc
  ELSE MmaLoop(Accumulate(acc, fa, fb,
                 Invocation(rowMajor, k \div kRow, k % kRow, off, kRow, kColumn)),
               k + 1, rowMajor, off, kRow, kColumn, fa, fb)

\* The accumulators returned by one call of operator().
OperatorCall(S, Op, P, rowMajor, fa, fb, fc, p) ==
  MmaLoop(CopyAccumulators(fc), 0, rowMajor,
          NOff(p, FragmentB_kElements(S, Op), MmaOperandB_kElements(Op), P),
          MmaIterationsRow(S, Op), MmaIterationsColumn(S, Op, P), fa, fb)

\* Operand fragments the caller may pass: all sub-tiles equal, or all
\* sub-tiles different.
Fragments(len, modulus) ==
  { [k \in 0..(len - 1) |-> (1 + k * step) % modulus] : step \in {0, 1} }

TransformIdle ==
  /\ ElementA = "float" /\ ElementB = "float"
  /\ OperatorElementA = "float" /\ OperatorElementB = "float"
  /\ FragA = <<>> /\ FragB = <<>> /\ dst_A = <<>> /\ dst_B = <<>>
  /\ i = 0 /\ tmp = <<>> /\ reads = <<>> /\ tpc = "idle"

Init ==
  /\ OperatorShape \in OperatorShapes
  /\ \E r \in 1..MaxRows, c \in 1..MaxNTiles :
       Shape = [kM |-> r * OperatorShape.kM, kN |-> c * OperatorShape.kN,
                kK |-> OperatorShape.kK]
  /\ ShapeDivisible(Shape, OperatorShape)
  /\ kPartitionsN \in 1..MaxPartitionsN
  /\ AccumulatorsInRowMajor \in BOOLEAN
  /\ partitionN_idx \in 0..MaxPartitionsN
  /\ A \in Fragments(NumTilesA(Shape, OperatorShape), NumVals)
  /\ B \in Fragments(NumTilesB(Shape, OperatorShape), NumVals)
  /\ C \in Fragments(NumTilesC(Shape, OperatorShape), NumAccVals)
  /\ D = [k \in 0..(NumTilesC(Shape, OperatorShape) - 1) |-> Uninitialized]
  /\ n_off = 0 /\ n = 0 /\ m = 0
  /\ pc = "entry"
  /\ calls = <<>>
  /\ TransformIdle

\* D = C; n_off = ...; the loop counters start at 0.
Enter ==
  /\ pc = "entry"
  /\ D' = CopyAccumulators(C)
  /\ n_off' = NOff(partitionN_idx, FragmentB_kElements(Shape, OperatorShape),
                   MmaOperandB_kElements(OperatorShape), kPartitionsN)
  /\ n' = 0 /\ m' = 0
  /\ pc' = "loop"
  /\ UNCHANGED <<Shape, OperatorShape, kPartitionsN, AccumulatorsInRowMajor,
                 partitionN_idx, A, B, C, calls>>
  /\ UNCHANGED transformVars

\* Advance of the two nested for loops after one body.
Advance ==
  IF m + 1 < rows
    THEN m' = m + 1 /\ n' = n /\ pc' = "loop"
    ELSE /\ m' = 0 /\ n' = n + 1
         /\ pc' = IF n + 1 < cols THEN "loop" ELSE "done"

\* One body of the inner loop whose indices are all inside the fragments.
Mma ==
  /\ pc = "loop"
  /\ LET inv == Invocation(AccumulatorsInRowMajor, n, m, n_off, rows, cols) IN
       /\ InBounds(inv)
       /\ D' = Accumulate(D, A, B, inv)
       /\ calls' = Append(calls, inv)
  /\ Advance
  /\ UNCHANGED <<Shape, OperatorShape, kPartitionsN, AccumulatorsInRowMajor,
                 partitionN_idx, A, B, C, n_off>>
  /\ UNCHANGED transformVars

\* One body of the inner loop with an index outside its fragment: the
\* behaviour is undefined.  The write lands outside D and may hit any of the
\* other objects, or none.
MmaOutOfBounds ==
  /\ pc = "loop"
  /\ LET inv == Invocation(AccumulatorsInRowMajor, n, m, n_off, rows, cols) IN
       /\ ~InBounds(inv)
       /\ calls' = Append(calls, inv)
  /\ \E victim \in {"none", "A", "B", "C", "D"} :
       /\ A' = IF victim = "A" THEN [A EXCEPT ![0] = Uninitialized] ELSE A
       /\ B' = IF victim = "B" THEN [B EXCEPT ![0] = Uninitialized] ELSE B
       /\ C' = IF victim = "C" THEN [C EXCEPT ![0] = Uninitialized] ELSE C
       /\ D' = IF victim = "D" THEN [D EXCEPT ![0] = Uninitialized] ELSE D
  /\ pc' = "undefined"
  /\ UNCHANGED <<Shape, OperatorShape, kPartitionsN, AccumulatorsInRowMajor,
                 partitionN_idx, n_off, n, m>>
  /\ UNCHANGED transformVars

Next == Enter \/ Mma \/ MmaOutOfBounds

Spec == Init /\ [][Next]_vars

----------------------------------------------------------------------------
(* Numeric conversion.  A value is an integer; float holds every value,     *)
(* half_t the multiples of 2 and bfloat16_t the multiples of 4, so that a   *)
(* narrowing conversion rounds.                                             *)

ElementTypes == {"float", "half_t", "bfloat16_t"}

Granularity(T) ==
  IF T = "float" THEN 1 ELSE IF T = "half_t" THEN 2 ELSE 4

\* Round to the nearest representable value, ties to the even one.
RoundToNearest(x, q) ==
  LET lo == (x \div q) * q
      r == x - lo
  IN IF 2 * r < q THEN lo
     ELSE IF 2 * r > q THEN lo + q
     ELSE IF (lo \div q) % 2 = 0 THEN lo ELSE lo + q

\* NumericConverter<T, S, Round>
NumericConverter(T, S, x) ==
  IF T = S THEN x ELSE RoundToNearest(x, Granularity(T))

\* NumericArrayConverter<T, S, N, Round>
NumericArrayConverter(T, S, source) ==
  [k \in DOMAIN source |-> NumericConverter(T, S, source[k])]

----------------------------------------------------------------------------
(* detail::ConvertAndPack and MmaTensorOp::transform *)

RECURSIVE BitAnd(_, _)
BitAnd(x, y) ==
  IF x = 0 \/ y = 0 THEN 0
  ELSE (x % 2) * (y % 2) + 2 * BitAnd(x \div 2, y \div 2)

RECURSIVE BitOr(_, _)
BitOr(x, y) ==
  IF x = 0 THEN y ELSE IF y = 0 THEN x
  ELSE (IF x % 2 = 1 \/ y % 2 = 1 THEN 1 ELSE 0) + 2 * BitOr(x \div 2, y \div 2)

\* Shifts of a non-negative int; the loop index is far below the width of
\* int, so no bit is shifted out.
ShiftLeft(x, k) == x * 2 ^ k
ShiftRight(x, k) == x \div 2 ^ k

\* 0xfffffffc on the 31 value bits of a non-negative int (0x7ffffffc).
PackMask == 2147483647 - 3

PackIndexNarrowMask(k) ==
  BitOr(BitOr(BitAnd(ShiftLeft(k, 1), 2), BitAnd(ShiftRight(k, 1), 1)),
        BitAnd(k, PackMask - 4))

\* int idx = (((i << 1) & 2) | ((i >> 1) & 1) | (i & 0xfffffffc));
PackIndex(k) ==
  BitOr(BitOr(BitAnd(ShiftLeft(k, 1), 2), BitAnd(ShiftRight(k, 1), 1)),
        BitAnd(k, PackMask))

\* Which specialization of ConvertAndPack<T, S, N, Round> is selected.
ConvertAndPackKind(T, S) ==
  IF T = S THEN "identity"
  ELSE IF T = "half_t" /\ S = "float" THEN "pack"
  ELSE "general"

ConvertFirstHalfOnly(dst, source, h, T, S) ==
  LET half == Cardinality(DOMAIN source) \div 2 IN
  [k \in DOMAIN dst |->
     IF k \in (h * half)..((h + 1) * half - 1)
       THEN NumericConverter(T, S, source[k - h * half])
       ELSE dst[k]]

\* ptr_dst_B[h] = convert_B(ptr_B[h]) on halves of FragmentB::kElements / 2
ConvertHalf(dst, source, h, T, S) ==
  LET half == Cardinality(DOMAIN source) \div 2 IN
  [k \in DOMAIN dst |->
     IF k \in (h * half)..((h + 1) * half - 1)
       THEN NumericConverter(T, S, source[k])
       ELSE dst[k]]

\* Raw fragments the tile iterators may deliver: values representable in
\* the raw element type, different in every position.
SourceFragments(len, T) ==
  { [k \in 0..(len - 1) |-> RoundToNearest(start + 5 * k, Granularity(T))] :
      start \in {1, 2} }

UninitializedArray(len) == [k \in 0..(len - 1) |-> Uninitialized]

MmaIdle ==
  /\ kPartitionsN = 1 /\ AccumulatorsInRowMajor = FALSE
  /\ partitionN_idx = 0
  /\ A = <<>> /\ B = <<>> /\ C = <<>> /\ D = <<>>
  /\ n_off = 0 /\ n = 0 /\ m = 0 /\ pc = "idle" /\ calls = <<>>

InitTransform ==
  /\ OperatorShape \in OperatorShapes
  /\ \E r \in 1..MaxRows, c \in 1..MaxNTiles :
       Shape = [kM |-> r * OperatorShape.kM, kN |-> c * OperatorShape.kN,
                kK |-> OperatorShape.kK]
  /\ ShapeDivisible(Shape, OperatorShape)
  /\ ElementA \in {"float", "half_t"}
  /\ ElementB \in {"float", "half_t"}
  /\ OperatorElementA \in ElementTypes
  /\ OperatorElementB \in ElementTypes
  /\ FragA \in SourceFragments(FragmentA_kElements(Shape, OperatorShape), ElementA)
  /\ FragB \in SourceFragments(FragmentB_kElements(Shape, OperatorShape), ElementB)
  /\ dst_A = UninitializedArray(FragmentA_kElements(Shape, OperatorShape))
  /\ dst_B = UninitializedArray(FragmentB_kElements(Shape, OperatorShape))
  /\ tmp = <<>> /\ i = 0 /\ reads = <<>>
  /\ tpc = "entry"
  /\ MmaIdle

\* dst_A = convert_A(A), ConvertAndPack<T, T>: return source.
ConvertA_Identity ==
  /\ tpc = "entry"
  /\ ConvertAndPackKind(OperatorElementA, ElementA) = "identity"
  /\ dst_A' = FragA
  /\ tpc' = "B0"
  /\ UNCHANGED <<ElementA, ElementB, OperatorElementA, OperatorElementB,
                 FragA, FragB, dst_B, i, tmp, reads>>
  /\ UNCHANGED mmaVars

\* dst_A = convert_A(A), primary template: return converter(source).
ConvertA_General ==
  /\ tpc = "entry"
  /\ ConvertAndPackKind(OperatorElementA, ElementA) = "general"
  /\ dst_A' = NumericArrayConverter(OperatorElementA, ElementA, FragA)
  /\ tpc' = "B0"
  /\ UNCHANGED <<ElementA, ElementB, OperatorElementA, OperatorElementB,
                 FragA, FragB, dst_B, i, tmp, reads>>
  /\ UNCHANGED mmaVars

\* ConvertAndPack<half_t, float>: Array<float, N> tmp; i = 0.
PackEnter ==
  /\ tpc = "entry"
  /\ ConvertAndPackKind(OperatorElementA, ElementA) = "pack"
  /\ tmp' = UninitializedArray(Cardinality(DOMAIN FragA))
  /\ i' = 0
  /\ tpc' = "pack"
  /\ UNCHANGED <<ElementA, ElementB, OperatorElementA, OperatorElementB,
                 FragA, FragB, dst_A, dst_B, reads>>
  /\ UNCHANGED mmaVars

\* tmp[i] = source[idx]
PackStep ==
  /\ tpc = "pack"
  /\ i < Cardinality(DOMAIN FragA)
  /\ PackIndex(i) \in DOMAIN FragA
  /\ tmp' = [tmp EXCEPT ![i] = FragA[PackIndex(i)]]
  /\ reads' = Append(reads, PackIndex(i))
  /\ i' = i + 1
  /\ UNCHANGED <<ElementA, ElementB, OperatorElementA, OperatorElementB,
                 FragA, FragB, dst_A, dst_B, tpc>>
  /\ UNCHANGED mmaVars

\* return converter(tmp)
PackConvert ==
  /\ tpc = "pack"
  /\ i >= Cardinality(DOMAIN FragA)
  /\ dst_A' = NumericArrayConverter("half_t", "float", tmp)
  /\ tpc' = "B0"
  /\ UNCHANGED <<ElementA, ElementB, OperatorElementA, OperatorElementB,
                 FragA, FragB, dst_B, i, tmp, reads>>
  /\ UNCHANGED mmaVars

\* ptr_dst_B[0] = convert_B(ptr_B[0])
ConvertB0 ==
  /\ tpc = "B0"
  /\ dst_B' = ConvertHalf(dst_B, FragB, 0, OperatorElementB, ElementB)
  /\ tpc' = "B1"
  /\ UNCHANGED <<ElementA, ElementB, OperatorElementA, OperatorElementB,
                 FragA, FragB, dst_A, i, tmp, reads>>
  /\ UNCHANGED mmaVars

\* ptr_dst_B[1] = convert_B(ptr_B[1])
ConvertB1 ==
  /\ tpc = "B1"
  /\ dst_B' = ConvertHalf(dst_B, FragB, 1, OperatorElementB, ElementB)
  /\ tpc' = "done"
  /\ UNCHANGED <<ElementA, ElementB, OperatorElementA, OperatorElementB,
                 FragA, FragB, dst_A, i, tmp, reads>>
  /\ UNCHANGED mmaVars

NextTransform ==
  \/ ConvertA_Identity \/ ConvertA_General
  \/ PackEnter \/ PackStep \/ PackConvert
  \/ ConvertB0 \/ ConvertB1

SpecTransform == InitTransform /\ [][NextTransform]_vars

----------------------------------------------------------------------------
(* Properties of MmaTensorOp::operator() *)

Returned == pc = "done"
ValidPartition == partitionN_idx \in 0..(kPartitionsN - 1)
NumBTiles == Shape.kN \div OperatorShape.kN
GridCells == (0..(rows - 1)) \X (0..(cols - 1))
Written == { calls[k].d : k \in 1..Len(calls) }

\* The reference driver of C1: plain order, n ascending, m ascending, no
\* reversal, on the operands of sub-tile pair (mm, nn).
RECURSIVE PlainDriver(_, _)
PlainDriver(acc, k) ==
  IF k >= rows * cols THEN acc
  ELSE LET nn == k \div rows
           mm == k % rows
           slot == IF AccumulatorsInRowMajor THEN nn + mm * cols
                                              ELSE mm + nn * rows
       IN PlainDriver([acc EXCEPT ![slot] = mma(A[mm], B[nn], acc[slot])], k + 1)

\* C1: without N-partitioning (N-partitions = 1, partition_index = 0) the
\* accumulators returned by operator() equal those of the plain-order
\* reference driver started from the same C, in both accumulator layouts.
C1_SerpentineEqualsPlain ==
  (Returned /\ kPartitionsN = 1 /\ partitionN_idx = 0) => D = PlainDriver(C, 0)

C1_Witness ==
  /\ Returned /\ kPartitionsN = 1 /\ partitionN_idx = 0
  /\ rows >= 3 /\ cols >= 3
  /\ A[0] # A[1] /\ B[0] # B[1] /\ C[0] # C[1]
  /\ \A k \in DOMAIN D : D[k] # C[k]
  /\ D = PlainDriver(C, 0)

\* Iteration grid as the data model states it.
GridRows == Shape.kM \div OperatorShape.kM
GridCols ==
  LET q == (Shape.kN \div OperatorShape.kN) \div kPartitionsN
  IN IF q >= 1 THEN q ELSE 1
ExpectedM(k) ==
  IF (k \div GridRows) % 2 = 0 THEN k % GridRows
                                ELSE GridRows - 1 - (k % GridRows)
VisitedPairs == [k \in 1..Len(calls) |-> <<calls[k].m, calls[k].n>>]

\* C2: one call issues exactly rows x cols invocations, columns ascending,
\* rows ascending in even columns and descending in odd columns; every
\* (m, n) pair is visited once, every targeted accumulator slot is written
\* once (all of D without partitioning), the A sub-tile that ends a column
\* starts the next one, and Shape (64,64,8) over operator (16,8,8) gives the
\* 4 x 8 grid with 32 invocations starting (0,0)..(3,0),(3,1)..(0,1),(0,2)..
C2_VisitOrder ==
  /\ Len(calls) <= GridRows * GridCols
  /\ \A k \in 1..Len(calls) :
       /\ calls[k].n = (k - 1) \div GridRows
       /\ calls[k].m = ExpectedM(k - 1)
  /\ Returned =>
       /\ Len(calls) = GridRows * GridCols
       /\ { VisitedPairs[k] : k \in 1..Len(calls) }
            = (0..(GridRows - 1)) \X (0..(GridCols - 1))
       /\ Cardinality(Written) = Len(calls)
       /\ (kPartitionsN = 1 /\ partitionN_idx = 0) => Written = DOMAIN D
       /\ \A nn \in 0..(GridCols - 2) :
            calls[(nn + 1) * GridRows].a = calls[(nn + 1) * GridRows + 1].a
  /\ ( /\ Returned
       /\ Shape = [kM |-> 64, kN |-> 64, kK |-> 8]
       /\ OperatorShape = [kM |-> 16, kN |-> 8, kK |-> 8]
       /\ kPartitionsN = 1 ) =>
       /\ GridRows = 4 /\ GridCols = 8 /\ Len(calls) = 32
       /\ SubSeq(VisitedPairs, 1, 12) =
            << <<0, 0>>, <<1, 0>>, <<2, 0>>, <<3, 0>>,
               <<3, 1>>, <<2, 1>>, <<1, 1>>, <<0, 1>>,
               <<0, 2>>, <<1, 2>>, <<2, 2>>, <<3, 2>> >>

C2_Witness ==
  /\ Returned
  /\ Shape = [kM |-> 64, kN |-> 64, kK |-> 8]
  /\ OperatorShape = [kM |-> 16, kN |-> 8, kK |-> 8]
  /\ kPartitionsN = 1 /\ partitionN_idx = 0
  /\ Len(calls) = 32
  /\ calls[5].m = 3 /\ calls[5].n = 1

\* C4 (as claimed): every invocation is D[idx] = mma(A[m_serpentine],
\* B[n + n_off], D[idx]) with idx = n + m_serpentine*cols in row-major and
\* idx = m_serpentine + (n + n_off)*rows otherwise.  Stated for the
\* partition indices 0..P-1, where every access is inside its fragment.
C4_InvocationOperands ==
  ValidPartition => \A k \in 1..Len(calls) :
    LET inv == calls[k] IN
      /\ inv.a = inv.m
      /\ inv.b = inv.n + n_off
      /\ inv.d = IF AccumulatorsInRowMajor
                   THEN inv.n + inv.m * cols
                   ELSE inv.m + (inv.n + n_off) * rows
      /\ inv.c = inv.d

\* C9: for partition_index in 0..P-1 every index used by operator() is
\* inside its fragment, in both accumulator layouts, so the call never
\* leaves defined behaviour.
C9_IndicesInBounds ==
  ValidPartition =>
    /\ pc # "undefined"
    /\ \A k \in 1..Len(calls) :
         /\ calls[k].a \in 0..(GridRows - 1)
         /\ calls[k].b \in 0..(NumTilesB(Shape, OperatorShape) - 1)
         /\ calls[k].d \in 0..(NumTilesC(Shape, OperatorShape) - 1)
         /\ calls[k].c \in 0..(NumTilesC(Shape, OperatorShape) - 1)

C9_Witness ==
  /\ Returned /\ ~AccumulatorsInRowMajor
  /\ kPartitionsN > 1 /\ partitionN_idx = kPartitionsN - 1
  /\ \E k \in 1..Len(calls) :
       /\ calls[k].b = NumTilesB(Shape, OperatorShape) - 1
       /\ calls[k].d = NumTilesC(Shape, OperatorShape) - 1

C8_NOffZeroWithoutPartitioning ==
  pc # "entry" =>
    /\ kPartitionsN = 1 => n_off = 0
    /\ (kPartitionsN > 1 /\ NumBTiles % kPartitionsN = 0 /\ ValidPartition)
         => n_off = partitionN_idx * GridCols

\* C8 (amended): n_off is zero when N-partitions = 1 and partition_index
\* = 0; with N-partitions = 1 it is partition_index times the number of B
\* sub-tiles; in general it is floor(partition_index * B sub-tiles /
\* N-partitions), which is partition_index * cols when N-partitions divides
\* the number of B sub-tiles.
C8_NOffValue ==
  pc # "entry" =>
    /\ (kPartitionsN = 1 /\ partitionN_idx = 0) => n_off = 0
    /\ kPartitionsN = 1 => n_off = partitionN_idx * NumBTiles
    /\ n_off * kPartitionsN <= partitionN_idx * NumBTiles
    /\ partitionN_idx * NumBTiles < (n_off + 1) * kPartitionsN
    /\ NumBTiles % kPartitionsN = 0 => n_off = partitionN_idx * GridCols

C8_Witness ==
  /\ pc # "entry" /\ kPartitionsN = 1 /\ partitionN_idx = 1
  /\ n_off = NumBTiles /\ n_off # 0

\* C7 (as claimed): with the same A, B and the same logical initial
\* accumulator, row-major D[n + m*cols] equals column-major D[m + n*rows]
\* for every grid cell (m, n).
C7_LayoutEquivalence ==
  (Returned /\ AccumulatorsInRowMajor /\ ValidPartition) =>
    LET Ccol == [j \in DOMAIN C |->
                  IF j < rows * cols
                    THEN C[(j \div rows) + (j % rows) * cols]
                    ELSE C[j]]
        Dcol == OperatorCall(Shape, OperatorShape, kPartitionsN, FALSE,
                             A, B, Ccol, partitionN_idx)
    IN \A cell \in GridCells :
         D[cell[2] + cell[1] * cols] = Dcol[cell[1] + cell[2] * rows]

\* C3 (as claimed): for every N-partition count P the columns computed by
\* the runs partition_index = 0..P-1, concatenated along N, are the
\* accumulators of one run with N-partitions = 1 over the full N range.
\* Stated per run, for the partition counts that divide the number of B
\* sub-tiles (the sub-ranges then tile the N range): the columns this run
\* contributes equal the same columns of the unpartitioned run.
C3_PartitioningEquivalence ==
  (Returned /\ ValidPartition /\ NumBTiles % kPartitionsN = 0) =>
    LET full == OperatorCall(Shape, OperatorShape, 1, AccumulatorsInRowMajor,
                             A, B, C, 0)
    IN /\ kPartitionsN * cols = NumBTiles
       /\ \A cell \in GridCells :
            LET mm == cell[1]
                col == partitionN_idx * cols + cell[2]
            IN IF AccumulatorsInRowMajor
                 THEN D[cell[2] + mm * cols] = full[col + mm * NumBTiles]
                 ELSE D[mm + col * rows] = full[mm + col * rows]

----------------------------------------------------------------------------
(* Properties of ConvertAndPack and transform *)

\* The index map of C5 in arithmetic form: the two low bits of k swapped,
\* the rest of k kept.
SwapLowBits(k) == 2 * (k % 2) + ((k \div 2) % 2) + 4 * (k \div 4)

PackSelected == ConvertAndPackKind(OperatorElementA, ElementA) = "pack"
FragALen == Cardinality(DOMAIN FragA)

\* C5: in the float-to-half ConvertAndPack, for a fragment length that is a
\* multiple of 4, output element k is the down-converted source element
\* ((k<<1)&2)|((k>>1)&1)|(k&~3); the source indices read are a permutation
\* of 0..N-1 that swaps the two low bits inside each group of 4.
C5_PackPermutation ==
  (PackSelected /\ FragALen % 4 = 0) =>
    /\ \A k \in 1..Len(reads) : reads[k] = SwapLowBits(k - 1)
    /\ \A j, k \in 1..Len(reads) : reads[j] = reads[k] => j = k
    /\ tpc \in {"B0", "B1", "done"} =>
         /\ { reads[k] : k \in 1..Len(reads) } = 0..(FragALen - 1)
         /\ Len(reads) = FragALen
         /\ DOMAIN dst_A = DOMAIN FragA
         /\ \A k \in DOMAIN dst_A :
              dst_A[k] = NumericConverter("half_t", "float", FragA[SwapLowBits(k)])

C5_Witness ==
  /\ PackSelected /\ tpc = "done" /\ FragALen >= 8
  /\ dst_A[1] = NumericConverter("half_t", "float", FragA[2])
  /\ dst_A[6] = NumericConverter("half_t", "float", FragA[5])
  /\ dst_A[1] # NumericConverter("half_t", "float", FragA[1])
  /\ dst_A[1] # FragA[2]

\* The conversion rule of the Operand Conversion Pipeline applied to a
\* whole fragment: identity, element-wise conversion, or for float to half
\* the conversion of the permuted source.
PipelineRule(T, S, source, k) ==
  IF T = S THEN source[k]
  ELSE IF T = "half_t" /\ S = "float"
    THEN NumericConverter(T, S, source[SwapLowBits(k)])
    ELSE NumericConverter(T, S, source[k])

FragBHalf == Cardinality(DOMAIN FragB) \div 2

\* C6 (as claimed): transform applies the same rule to A and to B; B is
\* converted as two equal halves, each position receiving what the rule
\* assigns to it within its half.
C6_SameRuleForAAndB ==
  tpc = "done" =>
    /\ DOMAIN dst_A = DOMAIN FragA /\ DOMAIN dst_B = DOMAIN FragB
    /\ \A k \in DOMAIN dst_A :
         dst_A[k] = PipelineRule(OperatorElementA, ElementA, FragA, k)
    /\ FragBHalf % 4 = 0 =>
         \A h \in {0, 1} : \A k \in 0..(FragBHalf - 1) :
           dst_B[h * FragBHalf + k] =
             PipelineRule(OperatorElementB, ElementB,
                          [j \in 0..(FragBHalf - 1) |-> FragB[h * FragBHalf + j]], k)

\* C6 (amended): transform converts A by the pipeline rule (identity,
\* element-wise rounding, or for float to half the conversion of the
\* permuted source) and converts B element-wise in two equal halves with no
\* permutation, also for float to half; element counts are preserved.
C6_TransformRules ==
  tpc = "done" =>
    /\ DOMAIN dst_A = DOMAIN FragA /\ DOMAIN dst_B = DOMAIN FragB
    /\ \A k \in DOMAIN dst_A :
         dst_A[k] = PipelineRule(OperatorElementA, ElementA, FragA, k)
    /\ \A k \in DOMAIN dst_B :
         dst_B[k] = IF OperatorElementB = ElementB THEN FragB[k]
                    ELSE RoundToNearest(FragB[k], Granularity(OperatorElementB))

C6_Witness ==
  /\ tpc = "done"
  /\ ElementA = "float" /\ OperatorElementA = "half_t"
  /\ ElementB = "float" /\ OperatorElementB = "half_t"
  /\ FragBHalf >= 4 /\ FragBHalf % 4 = 0
  /\ dst_A[1] = NumericConverter("half_t", "float", FragA[2])
  /\ dst_B[1] = NumericConverter("half_t", "float", FragB[1])
  /\ dst_B[1] # NumericConverter("half_t", "float", FragB[2])
  /\ dst_B[FragBHalf + 1] = NumericConverter("half_t", "float", FragB[FragBHalf + 1])

====
